---- MODULE Spec2Model ----
(***************************************************************************)
(* Model of apache_beam/runners/direct/util.py: the three records of the   *)
(* DirectRunner (TransformResult, TimerFiring, KeyedWorkItem), their       *)
(* constructors, the executor's late assignment of logical_metric_updates, *)
(* and the two collaborators the specification describes at the boundary   *)
(* (bundle commitment, the per-key timer table).                           *)
(*                                                                         *)
(* Python values: an optional value is a sequence of length at most one,   *)
(* None == <<>> and Some(x) == <<x>>; a constructor call yields            *)
(* [ok, obj], ok = FALSE standing for the AssertionError the call raises.  *)
(* Assertions are enabled (__debug__ is true, the interpreter's default).  *)
(***************************************************************************)
EXTENDS Integers, Sequences, FiniteSets, TLC

VARIABLES
  \* ---- TransformResult and its executor / commitment
  result,        \* the TransformResult the executor holds (optional)
  resultArgs,    \* ghost: the constructor arguments of result (optional)
  trCall,        \* ghost: the last TransformResult(...) call, [args, ok]
  writes,        \* ghost: assignments to result.logical_metric_updates, [value, ok]
  committed,     \* has result been handed to commitment
  engine,        \* commitment state: bundles, re-scheduled input, metrics, holds
  \* ---- TimerFiring and KeyedWorkItem
  firings,       \* the TimerFiring objects constructed so far
  firingArgs,    \* ghost: the constructor arguments of each of them
  tfCalls,       \* ghost: number of TimerFiring(...) calls
  kwi,           \* ghost: the last KeyedWorkItem(...) call, [args, ok, obj]
  \* ---- timer table
  pending,       \* pending timers, entries [id, timestamp]
  clock,         \* the clock of each time domain
  history,       \* ghost: timestamps set per identity since it was last idle
  armed,         \* ghost: per identity, times it went from idle to pending
  delivered,     \* ghost: per identity, firings emitted
  lastFired,     \* ghost: the last emitted firing and the history it answered
  setCalls       \* ghost: number of SetTimer calls

vars == <<result, resultArgs, trCall, writes, committed, engine,
          firings, firingArgs, tfCalls, kwi,
          pending, clock, history, armed, delivered, lastFired, setCalls>>

resultVars == <<result, resultArgs, trCall, writes, committed, engine>>
workVars   == <<firings, firingArgs, tfCalls, kwi>>
timerVars  == <<pending, clock, history, armed, delivered, lastFired, setCalls>>

----------------------------------------------------------------------------
\* Bounds of the model
MaxWrites  == 2   \* assignments to logical_metric_updates per result
MaxCommits == 2   \* results handed to commitment
MaxBundles == 1   \* output bundles per result
MaxFirings == 1   \* TimerFiring objects alive
MaxLen     == 2   \* length of an element list
MaxTime    == 1   \* last instant of either clock
MaxSets    == 3   \* SetTimer calls

\* Input samples
None          == <<>>
Some(x)       == <<x>>
Transforms    == {"t1"}
Bundles       == {"b1"}
CounterNames  == {"c"}
TagValues     == {"tags"}
MetricUpdates == {"m1", "m2"}
Keys          == {"k1", "k2"}
Windows       == {"W"}
Names         == {"expiry"}
TimeDomains   == {"EVENT_TIME", "PROCESSING_TIME"}
Elems         == {1, 2}
Instants      == 0..MaxTime

SeqsUpTo(S, n) == UNION {[1..m -> S] : m \in 0..n}
Opt(S)         == {None} \cup {Some(x) : x \in S}
Last(s)        == s[Len(s)]

\* a timestamp carries the clock it was read from
Timestamps == [clock : TimeDomains, t : Instants]

----------------------------------------------------------------------------
\* TransformResult

TransformResultArgs ==
  [applied_ptransform         : Transforms,
   uncommitted_output_bundles : SeqsUpTo(Bundles, MaxBundles),
   unprocessed_bundles        : Opt(Bundles),
   counters                   : SUBSET (CounterNames \X {1}),
   watermark_hold             : Opt(Instants),
   undeclared_tag_values      : Opt(TagValues)]

\* faulty variant: two assignments of the constructor crossed
TransformResultInit_Crossed(a) ==
  [ok  |-> TRUE,
   obj |-> Some([transform                  |-> a.applied_ptransform,
                 uncommitted_output_bundles |-> a.unprocessed_bundles,
                 unprocessed_bundles        |-> a.uncommitted_output_bundles,
                 counters                   |-> a.counters,
                 watermark_hold             |-> a.watermark_hold,
                 undeclared_tag_values      |-> a.undeclared_tag_values,
                 logical_metric_updates     |-> None])]

\* faulty variant: the constructor insists on some payload
TransformResultInit_Validating(a) ==
  IF a.uncommitted_output_bundles = <<>> /\ a.unprocessed_bundles = None
     /\ a.counters = {} /\ a.watermark_hold = None
  THEN [ok |-> FALSE, obj |-> None]
  ELSE [ok  |-> TRUE,
        obj |-> Some([transform                  |-> a.applied_ptransform,
                      uncommitted_output_bundles |-> a.uncommitted_output_bundles,
                      unprocessed_bundles        |-> a.unprocessed_bundles,
                      counters                   |-> a.counters,
                      watermark_hold             |-> a.watermark_hold,
                      undeclared_tag_values      |-> a.undeclared_tag_values,
                      logical_metric_updates     |-> None])]

\* TransformResult.__init__: stores the six arguments, no check, and leaves
\* logical_metric_updates None
TransformResultInit(a) ==
  [ok  |-> TRUE,
   obj |-> Some([transform                  |-> a.applied_ptransform,
                 uncommitted_output_bundles |-> a.uncommitted_output_bundles,
                 unprocessed_bundles        |-> a.unprocessed_bundles,
                 counters                   |-> a.counters,
                 watermark_hold             |-> a.watermark_hold,
                 undeclared_tag_values      |-> a.undeclared_tag_values,
                 logical_metric_updates     |-> None])]

\* faulty variant: a write-once slot, the second assignment raises
SetLogicalMetricUpdates_WriteOnce(r, v) ==
  IF r.logical_metric_updates # None
  THEN [ok |-> FALSE, obj |-> r]
  ELSE [ok |-> TRUE, obj |-> [r EXCEPT !.logical_metric_updates = Some(v)]]

\* result.logical_metric_updates = v: a plain instance attribute (the class
\* has no __setattr__, no property, no __slots__), so the store always succeeds
SetLogicalMetricUpdates(r, v) ==
  [ok |-> TRUE, obj |-> [r EXCEPT !.logical_metric_updates = Some(v)]]

EngineInit ==
  [bundles     |-> <<>>,
   rescheduled |-> <<>>,
   metrics     |-> [c \in CounterNames |-> 0],
   holds       |-> [t \in Transforms |-> None],
   commits     |-> 0]

Delta(counters, c) == IF <<c, 1>> \in counters THEN 1 ELSE 0

\* commitment of one result: output bundles are appended, the unprocessed
\* bundle is re-scheduled, counter deltas are merged, a hold is recorded
CommitResult(e, r) ==
  [bundles     |-> e.bundles \o r.uncommitted_output_bundles,
   rescheduled |-> e.rescheduled \o r.unprocessed_bundles,
   metrics     |-> [c \in CounterNames |-> e.metrics[c] + Delta(r.counters, c)],
   holds       |-> IF r.watermark_hold = None THEN e.holds
                   ELSE [e.holds EXCEPT ![r.transform] = r.watermark_hold],
   commits     |-> e.commits]

NewTransformResult(a) ==
  LET c == TransformResultInit(a) IN
  /\ trCall' = Some([args |-> a, ok |-> c.ok])
  /\ IF c.ok
     THEN /\ result' = c.obj
          /\ resultArgs' = Some(a)
          /\ writes' = <<>>
          /\ committed' = FALSE
     ELSE UNCHANGED <<result, resultArgs, writes, committed>>
  /\ UNCHANGED <<engine, workVars, timerVars>>

AssignLogicalMetricUpdates(v) ==
  /\ result # None
  /\ Len(writes) < MaxWrites
  /\ LET s == SetLogicalMetricUpdates(result[1], v) IN
     /\ result' = Some(s.obj)
     /\ writes' = Append(writes, [value |-> v, ok |-> s.ok])
  /\ UNCHANGED <<resultArgs, trCall, committed, engine, workVars, timerVars>>

Commit ==
  /\ result # None
  /\ ~committed
  /\ engine.commits < MaxCommits
  /\ committed' = TRUE
  /\ engine' = [CommitResult(engine, result[1]) EXCEPT !.commits = engine.commits + 1]
  /\ UNCHANGED <<result, resultArgs, trCall, writes, workVars, timerVars>>

----------------------------------------------------------------------------
\* TimerFiring

TimerFiringArgs ==
  [key : Keys, window : Windows, name : Names,
   time_domain : TimeDomains, timestamp : Timestamps]

\* faulty variant: the constructor checks the timestamp against the time domain
TimerFiringInit_Validating(a) ==
  IF a.timestamp.clock # a.time_domain
  THEN [ok |-> FALSE, obj |-> None]
  ELSE [ok  |-> TRUE,
        obj |-> Some([key |-> a.key, window |-> a.window, name |-> a.name,
                      time_domain |-> a.time_domain, timestamp |-> a.timestamp])]

\* faulty variant: the timestamp is stored with its instant reset
TimerFiringInit_Resetting(a) ==
  [ok  |-> TRUE,
   obj |-> Some([key |-> a.key, window |-> a.window, name |-> a.name,
                 time_domain |-> a.time_domain,
                 timestamp |-> [a.timestamp EXCEPT !.t = 0]])]

\* TimerFiring.__init__: stores the five arguments, no check
TimerFiringInit(a) ==
  [ok  |-> TRUE,
   obj |-> Some([key |-> a.key, window |-> a.window, name |-> a.name,
                 time_domain |-> a.time_domain, timestamp |-> a.timestamp])]

NewTimerFiring(a) ==
  LET c == TimerFiringInit(a) IN
  /\ tfCalls < MaxFirings
  /\ tfCalls' = tfCalls + 1
  /\ IF c.ok
     THEN /\ firings' = Append(firings, c.obj[1])
          /\ firingArgs' = Append(firingArgs, a)
     ELSE UNCHANGED <<firings, firingArgs>>
  /\ UNCHANGED <<kwi, resultVars, timerVars>>

----------------------------------------------------------------------------
\* KeyedWorkItem

\* Python truth values: None is false, an instance of a class that defines
\* neither __bool__ nor __len__ is true, a list is true iff it is not empty
TruthyObject(o) == o # None
TruthyList(l)   == l # None /\ l[1] # <<>>

\* faulty variant: the assertion of a tagged union, exactly one payload
KeyedWorkItemInit_Union(key, timer_firing, elements) ==
  IF TruthyObject(timer_firing) # TruthyList(elements)
  THEN [ok  |-> TRUE,
        obj |-> Some([key |-> key, timer_firing |-> timer_firing,
                      elements |-> elements])]
  ELSE [ok |-> FALSE, obj |-> None]

\* faulty variant: the assertion parsed as not (timer_firing and elements)
KeyedWorkItemInit_NotBoth(key, timer_firing, elements) ==
  IF ~(TruthyObject(timer_firing) /\ TruthyList(elements))
  THEN [ok  |-> TRUE,
        obj |-> Some([key |-> key, timer_firing |-> timer_firing,
                      elements |-> elements])]
  ELSE [ok |-> FALSE, obj |-> None]

\* faulty variant: the element list is stored reversed
KeyedWorkItemInit_Reversed(key, timer_firing, elements) ==
  IF (~TruthyObject(timer_firing)) /\ TruthyList(elements)
  THEN [ok  |-> TRUE,
        obj |-> Some([key |-> key, timer_firing |-> timer_firing,
                      elements |-> Some([i \in 1..Len(elements[1]) |->
                                  elements[1][Len(elements[1]) + 1 - i]])])]
  ELSE [ok |-> FALSE, obj |-> None]

\* KeyedWorkItem.__init__: assert not timer_firing and elements, which is
\* (not timer_firing) and elements; the AssertionError leaves no object
KeyedWorkItemInit(key, timer_firing, elements) ==
  IF (~TruthyObject(timer_firing)) /\ TruthyList(elements)
  THEN [ok  |-> TRUE,
        obj |-> Some([key |-> key, timer_firing |-> timer_firing,
                      elements |-> elements])]
  ELSE [ok |-> FALSE, obj |-> None]

ElementLists == Opt(SeqsUpTo(Elems, MaxLen))

\* timer_firing is None or (the index of) a constructed TimerFiring
NewKeyedWorkItem(key, tf, elements) ==
  LET timer_firing == IF tf = 0 THEN None ELSE Some(firings[tf])
      c == KeyedWorkItemInit(key, timer_firing, elements) IN
  /\ kwi' = Some([args |-> [key |-> key, timer_firing |-> timer_firing,
                            elements |-> elements],
                  ref |-> tf, ok |-> c.ok, obj |-> c.obj])
  /\ UNCHANGED <<firings, firingArgs, tfCalls, resultVars, timerVars>>

----------------------------------------------------------------------------
\* Timer table: timers are addressed by (key, window, name, time_domain)

TimerIds == [key : Keys, window : Windows, name : Names, time_domain : TimeDomains]

PendingFor(p, id) == {e \in p : e.id = id}

\* faulty variant: a timer set again is added beside the pending one
SetTimerTable_Adding(p, id, t) ==
  p \cup {[id |-> id, timestamp |-> [clock |-> id.time_domain, t |-> t]]}

\* setting a timer replaces the pending timer of the same identity
SetTimerTable(p, id, t) ==
  (p \ PendingFor(p, id))
    \cup {[id |-> id, timestamp |-> [clock |-> id.time_domain, t |-> t]]}

SetTimer(id, t) ==
  /\ setCalls < MaxSets
  /\ setCalls' = setCalls + 1
  /\ pending' = SetTimerTable(pending, id, t)
  /\ history' = [history EXCEPT ![id] = Append(@, t)]
  /\ armed' = [armed EXCEPT ![id] = IF PendingFor(pending, id) = {} THEN @ + 1 ELSE @]
  /\ UNCHANGED <<clock, delivered, lastFired, resultVars, workVars>>

AdvanceClock(d) ==
  /\ clock[d] < MaxTime
  /\ clock' = [clock EXCEPT ![d] = @ + 1]
  /\ UNCHANGED <<pending, history, armed, delivered, lastFired, setCalls,
                 resultVars, workVars>>

\* a pending timer whose deadline the clock has reached is emitted as a
\* TimerFiring and leaves the table
FireTimer(e) ==
  /\ e \in pending
  /\ e.timestamp.t <= clock[e.id.time_domain]
  /\ LET c == TimerFiringInit([key |-> e.id.key, window |-> e.id.window,
                               name |-> e.id.name,
                               time_domain |-> e.id.time_domain,
                               timestamp |-> e.timestamp]) IN
     /\ c.ok
     /\ lastFired' = Some([firing |-> c.obj[1], history |-> history[e.id]])
  /\ pending' = pending \ {e}
  /\ delivered' = [delivered EXCEPT ![e.id] = @ + 1]
  /\ history' = [history EXCEPT ![e.id] =
                   IF PendingFor(pending', e.id) = {} THEN <<>> ELSE @]
  /\ UNCHANGED <<clock, armed, setCalls, resultVars, workVars>>

----------------------------------------------------------------------------
\* Specifications

Init ==
  /\ result = None /\ resultArgs = None /\ trCall = None
  /\ writes = <<>> /\ committed = FALSE /\ engine = EngineInit
  /\ firings = <<>> /\ firingArgs = <<>> /\ tfCalls = 0 /\ kwi = None
  /\ pending = {} /\ clock = [d \in TimeDomains |-> 0]
  /\ history = [id \in TimerIds |-> <<>>]
  /\ armed = [id \in TimerIds |-> 0]
  /\ delivered = [id \in TimerIds |-> 0]
  /\ lastFired = None /\ setCalls = 0

\* the executor: evaluate a bundle, then attach the metric updates
NextExecutor ==
  \/ \E a \in TransformResultArgs : NewTransformResult(a)
  \/ \E v \in MetricUpdates : AssignLogicalMetricUpdates(v)

\* the engine: receive a result, commit it
NextCommit ==
  \/ \E a \in TransformResultArgs : NewTransformResult(a)
  \/ Commit

NextWork ==
  \/ \E a \in TimerFiringArgs : NewTimerFiring(a)
  \/ \E key \in Keys, tf \in 0..Len(firings), el \in ElementLists :
       NewKeyedWorkItem(key, tf, el)

NextTimers ==
  \/ \E id \in TimerIds, t \in Instants : SetTimer(id, t)
  \/ \E d \in TimeDomains : AdvanceClock(d)
  \/ \E e \in pending : FireTimer(e)

Next == NextExecutor \/ NextCommit \/ NextWork \/ NextTimers

SpecExecutor == Init /\ [][NextExecutor]_vars
SpecCommit   == Init /\ [][NextCommit]_vars
SpecWork   == Init /\ [][NextWork]_vars
SpecTimers == Init /\ [][NextTimers]_vars
Spec       == Init /\ [][Next]_vars

----------------------------------------------------------------------------
\* Claims about KeyedWorkItem (SpecWork)

KwiTimerGiven    == TruthyObject(kwi[1].args.timer_firing)
KwiElementsGiven == TruthyList(kwi[1].args.elements)

\* C1: every constructed KeyedWorkItem carries exactly one of {non-empty
\* elements, a timer firing}; a call with neither payload, or with both a
\* timer firing and non-empty elements, fails and yields no work item.
C1_ExactlyOnePayload ==
  kwi # None =>
    /\ kwi[1].ok =>
         TruthyList(kwi[1].obj[1].elements) # TruthyObject(kwi[1].obj[1].timer_firing)
    /\ (~KwiTimerGiven /\ ~KwiElementsGiven) => (~kwi[1].ok /\ kwi[1].obj = None)
    /\ (KwiTimerGiven /\ KwiElementsGiven) => (~kwi[1].ok /\ kwi[1].obj = None)

C1_Witness ==
  kwi # None /\ KwiTimerGiven /\ KwiElementsGiven /\ ~kwi[1].ok

\* C2: a call with a key, a timer firing and no elements (omitted or empty)
\* succeeds, and the work item carries that timer firing.
C2_TimerVariantConstructible ==
  (kwi # None /\ KwiTimerGiven /\ ~KwiElementsGiven) =>
    /\ kwi[1].ok
    /\ kwi[1].obj # None
    /\ kwi[1].obj[1].timer_firing = kwi[1].args.timer_firing

\* C3: a call with a key, a non-empty element list and no timer firing
\* succeeds; the work item has no timer firing, the key supplied and the
\* elements supplied, in the same order.
C3_ElementsVariant ==
  (kwi # None /\ kwi[1].args.timer_firing = None /\ KwiElementsGiven) =>
    /\ kwi[1].ok
    /\ kwi[1].obj # None
    /\ kwi[1].obj[1].timer_firing = None
    /\ kwi[1].obj[1].key = kwi[1].args.key
    /\ kwi[1].obj[1].elements = kwi[1].args.elements

C3_Witness ==
  /\ kwi # None /\ kwi[1].ok
  /\ kwi[1].args.key = "k1"
  /\ kwi[1].args.elements = Some(<<1, 2>>)
  /\ kwi[1].obj[1].elements = Some(<<1, 2>>)

----------------------------------------------------------------------------
\* Claims about TimerFiring (SpecWork)

\* C6 as stated: every constructed TimerFiring has a timestamp in the value
\* space of its time domain (a mismatch fails construction).
C6_DomainChecked ==
  \A i \in 1..Len(firings) : firings[i].timestamp.clock = firings[i].time_domain

\* C6 as amended: TimerFiring construction validates nothing; every call
\* succeeds and yields a firing, whether or not the timestamp is in the
\* value space of the time domain, and both are stored as supplied.
C6_NoValidation ==
  /\ Len(firings) = tfCalls
  /\ \A i \in 1..Len(firings) :
       /\ firings[i].time_domain = firingArgs[i].time_domain
       /\ firings[i].timestamp.clock = firingArgs[i].timestamp.clock

C6_Witness ==
  \E i \in 1..Len(firings) :
    /\ firings[i].time_domain = "EVENT_TIME"
    /\ firings[i].timestamp.clock = "PROCESSING_TIME"

\* C9: a TimerFiring holds key, window, name, time_domain and timestamp as
\* supplied to its constructor, and still does after any later operation,
\* the attempt to wrap it into a KeyedWorkItem included.
C9_FiringNeverMutated ==
  \A i \in 1..Len(firings) :
    /\ firings[i].key = firingArgs[i].key
    /\ firings[i].window = firingArgs[i].window
    /\ firings[i].name = firingArgs[i].name
    /\ firings[i].time_domain = firingArgs[i].time_domain
    /\ firings[i].timestamp = firingArgs[i].timestamp

C9_Witness ==
  /\ Len(firings) >= 1
  /\ firings[1].timestamp.t = 1
  /\ kwi # None /\ kwi[1].ref = 1
  /\ kwi[1].args.timer_firing = Some(firings[1])

----------------------------------------------------------------------------
\* Claims about TransformResult (SpecExecutor, SpecCommit)

\* C4 as stated: logical_metric_updates is unset after construction, the
\* first assignment succeeds, every later one is rejected and the first
\* value stays in place.
C4_WriteOnce ==
  result # None =>
    /\ writes = <<>> => result[1].logical_metric_updates = None
    /\ writes # <<>> =>
         /\ writes[1].ok
         /\ \A i \in 2..Len(writes) : ~writes[i].ok
         /\ result[1].logical_metric_updates = Some(writes[1].value)

\* C4 as amended: logical_metric_updates is unset after construction and
\* every assignment succeeds, a second one too: the field holds the value
\* assigned last (the record does not enforce write-once).
C4_LastWriteWins ==
  result # None =>
    /\ writes = <<>> => result[1].logical_metric_updates = None
    /\ writes # <<>> =>
         /\ \A i \in 1..Len(writes) : writes[i].ok
         /\ result[1].logical_metric_updates = Some(Last(writes).value)

C4_Witness ==
  /\ result # None /\ Len(writes) = 2
  /\ writes[1].value = "m1" /\ writes[2].value = "m2" /\ writes[2].ok
  /\ result[1].logical_metric_updates = Some("m2")

\* C5: transform, uncommitted_output_bundles, unprocessed_bundles, counters,
\* watermark_hold and undeclared_tag_values of a result equal the
\* constructor arguments after any sequence of operations; only
\* logical_metric_updates changes.
C5_ConstructorFieldsKept ==
  result # None =>
    /\ result[1].transform = resultArgs[1].applied_ptransform
    /\ result[1].uncommitted_output_bundles = resultArgs[1].uncommitted_output_bundles
    /\ result[1].unprocessed_bundles = resultArgs[1].unprocessed_bundles
    /\ result[1].counters = resultArgs[1].counters
    /\ result[1].watermark_hold = resultArgs[1].watermark_hold
    /\ result[1].undeclared_tag_values = resultArgs[1].undeclared_tag_values

C5_Witness ==
  /\ result # None /\ Len(writes) = 2
  /\ result[1].logical_metric_updates # None
  /\ resultArgs[1].uncommitted_output_bundles # <<>>
  /\ resultArgs[1].unprocessed_bundles = None

EmptyArgs(a) ==
  /\ a.uncommitted_output_bundles = <<>>
  /\ a.unprocessed_bundles = None
  /\ a.counters = {}
  /\ a.watermark_hold = None

C8_Accepted ==
  (trCall # None /\ EmptyArgs(trCall[1].args)) =>
    /\ trCall[1].ok
    /\ result # None
    /\ result[1].uncommitted_output_bundles = <<>>
    /\ result[1].unprocessed_bundles = None
    /\ result[1].counters = {}
    /\ result[1].watermark_hold = None

C8_CommitIsNoOp ==
  (result # None /\ EmptyArgs(resultArgs[1]) /\ ~committed /\ committed') =>
    /\ engine'.bundles = engine.bundles
    /\ engine'.rescheduled = engine.rescheduled
    /\ engine'.metrics = engine.metrics
    /\ engine'.holds = engine.holds

\* C8: a TransformResult with empty output bundles, no unprocessed bundle,
\* empty counters and no watermark hold is accepted by the constructor and
\* exposes exactly that; committing it adds no bundle, re-schedules no
\* input, changes no counter and requests no hold.
C8_EmptyResultNoOp == [](C8_Accepted) /\ [][C8_CommitIsNoOp]_vars

C8_Witness ==
  /\ result # None /\ committed /\ EmptyArgs(resultArgs[1])
  /\ engine.commits = 2 /\ engine.bundles = <<"b1">>
  /\ engine.rescheduled = <<"b1">> /\ engine.metrics["c"] = 1
  /\ engine.holds["t1"] = Some(1)

----------------------------------------------------------------------------
\* Claims about the timer table (SpecTimers)

====
